---- MODULE Spec2Model ----
(***************************************************************************)
(* Model of the Tublisher server (src/main.py): the create_book pipeline   *)
(* that turns a video URL into an EPUB file.  One request is a sequence of *)
(* handler steps (URL cleanup, identifier extraction, title lookup,        *)
(* caption fetch, backend branch, audio download/upload/generation,        *)
(* EPUB assembly), followed by the transmission of the file response and   *)
(* the background task that removes the EPUB file.                         *)
(*                                                                         *)
(* External collaborators (yt-dlp, the caption service, DeepSeek, Gemini,  *)
(* ebooklib) are nondeterministic: every outcome they can produce is a     *)
(* choice of the action that calls them.                                   *)
(*                                                                         *)
(* Texts are TLA+ strings; URLs and identifiers are sequences of           *)
(* one-character strings so that the regular expression and the string     *)
(* replacement can be computed character by character.  Korean message     *)
(* texts of the source are written in English here.                        *)
(***************************************************************************)
EXTENDS Integers, Sequences, FiniteSets, TLC

\* Number of requests the server receives in one run.
NumRequests == 2

\* Length of a video identifier: the {11} of the regular expression.
IdLen == 11

Requests == 1 .. NumRequests

\* Python's None, for an optional text.
None == "<None>"

\* Python's None, for an optional URL, identifier or path (sequences here).
NoneSeq == << >>

(***************************************************************************)
(* Character-level helpers                                                 *)
(***************************************************************************)

\* The character class [0-9A-Za-z_-] of the regular expression.
IdChars ==
  {"0","1","2","3","4","5","6","7","8","9",
   "A","B","C","D","E","F","G","H","I","J","K","L","M",
   "N","O","P","Q","R","S","T","U","V","W","X","Y","Z",
   "a","b","c","d","e","f","g","h","i","j","k","l","m",
   "n","o","p","q","r","s","t","u","v","w","x","y","z","_","-"}

\* The characters str.strip() removes.
Whitespace == {" ", "\t", "\n", "\r"}

\* s starts with the sequence p at position i.
StartsWithAt(s, p, i) ==
  /\ i + Len(p) - 1 <= Len(s)
  /\ \A k \in 1 .. Len(p) : s[i + k - 1] = p[k]

\* str.replace(old, new): every non-overlapping occurrence, left to right.
RECURSIVE ReplaceFrom(_, _, _, _)
ReplaceFrom(s, old, new, i) ==
  IF i > Len(s) THEN << >>
  ELSE IF StartsWithAt(s, old, i)
       THEN new \o ReplaceFrom(s, old, new, i + Len(old))
       ELSE << s[i] >> \o ReplaceFrom(s, old, new, i + 1)

Replace(s, old, new) == ReplaceFrom(s, old, new, 1)

\* str.strip(): drops leading and trailing whitespace.
Strip(s) ==
  LET keep == { i \in 1 .. Len(s) : s[i] \notin Whitespace }
  IN  IF keep = {} THEN << >>
      ELSE LET lo == CHOOSE i \in keep : \A j \in keep : i <= j
               hi == CHOOSE i \in keep : \A j \in keep : j <= i
           IN  SubSeq(s, lo, hi)

\* clean_url = request.url.replace("https;", "https://").strip()
CleanUrl(url) ==
  Strip(Replace(url, <<"h","t","t","p","s",";">>,
                     <<"h","t","t","p","s",":","/","/">>))

\* IdLen characters of the class start at position i of s.
IdAt(s, i) ==
  /\ i + IdLen - 1 <= Len(s)
  /\ \A k \in i .. i + IdLen - 1 : s[k] \in IdChars

\* Where group 1 starts if the regular expression (?:v=|\/)([0-9A-Za-z_-]{11}).*
\* matches at position i, and 0 if it does not match there.
MatchAt(s, i) ==
  IF StartsWithAt(s, <<"v","=">>, i) /\ IdAt(s, i + 2) THEN i + 2
  ELSE IF s[i] = "/" /\ IdAt(s, i + 1) THEN i + 1
  ELSE 0

\* extract_video_id: re.search takes the leftmost match; None without a match.
extract_video_id(url) ==
  LET hits == { i \in 1 .. Len(url) : MatchAt(url, i) # 0 }
  IN  IF hits = {} THEN NoneSeq
      ELSE LET first == CHOOSE i \in hits : \A j \in hits : i <= j
               g     == MatchAt(url, first)
           IN  SubSeq(url, g, g + IdLen - 1)

\* " ".join(texts)
RECURSIVE JoinSpace(_)
JoinSpace(texts) ==
  IF texts = << >> THEN ""
  ELSE IF Len(texts) = 1 THEN texts[1]
  ELSE texts[1] \o " " \o JoinSpace(Tail(texts))

\* Python truthiness of an optional string: None and "" are false.
Truthy(v) == v # None /\ v # ""

(***************************************************************************)
(* Inputs                                                                  *)
(***************************************************************************)

\* https://youtu.be/dQw4w9WgXcQ
UrlShort ==
  <<"h","t","t","p","s",":","/","/","y","o","u","t","u",".","b","e","/",
    "d","Q","w","4","w","9","W","g","X","c","Q">>

\* " https;//www.youtube.com/watch?v=a_c-EFGH1jk&t=1": mistyped scheme, leading blank
UrlTypo ==
  <<" ","h","t","t","p","s",";","/","/","w","w","w",".","y","o","u","t","u",
    "b","e",".","c","o","m","/","w","a","t","c","h","?","v","=",
    "a","_","c","-","E","F","G","H","1","j","k","&","t","=","1">>

\* "not a url"
UrlBad == <<"n","o","t"," ","a"," ","u","r","l">>

Urls == { UrlShort, UrlTypo, UrlBad }

\* What YouTubeTranscriptApi.get_transcript can return: the texts of the fragments.
CaptionLists == { << >>, << "" >>, << "hello", "world" >> }

\* What a generation backend can return as text.
GeneratedTexts == { "", "## Chapter" }

\* The str(e) of an exception raised by a collaborator.
ErrorText == "timeout"

(***************************************************************************)
(* Texts the handler writes itself                                         *)
(***************************************************************************)

\* The title get_video_title returns when the lookup raises.
TitleOnFailure == "YouTube Video Summary"

\* The default of info.get('title', ...).
TitleDefault == "YouTube Summary"

\* "## 설정 오류 ... DeepSeek API Key가 없습니다."
MsgNoDeepSeekKey == "## Config error: there is no DeepSeek API key."

\* "## 설정 오류 ... GOOGLE_API_KEY를 설정해주세요."
MsgNoGoogleKey == "## Config error: a video without captions needs Gemini; set GOOGLE_API_KEY."

\* f"## AI 오류\n\nDeepSeek 처리 중 오류 발생: {e}"
MsgDeepSeekError(e) == "## AI error: DeepSeek failed: " \o e

\* f"## 처리 실패\n\n오디오 분석 중 오류: {e}"
MsgAudioError(e) == "## Processing failed: audio analysis error: " \o e

(***************************************************************************)
(* State                                                                   *)
(***************************************************************************)

VARIABLES
  deepseekKey,   \* DEEPSEEK_API_KEY is set (read once at import)
  googleKey,     \* GOOGLE_API_KEY is set (read once at import)
  ffmpegEnv,     \* FFMPEG_PATH: "unset", "valid" (an existing tool), "invalid"
  ffmpegOnPath,  \* shutil.which("ffmpeg") finds a tool
  pc,            \* per request: "idle", "handler", "sending", "background", "done"
  loc,           \* per request: the local variables of create_book while it runs
  resp,          \* per request: what the handler answered
  tasks,         \* per request: the paths given to background_tasks.add_task
  disk           \* the files under the temporary directory: <<path, owner>>, the
                 \* owner being the request that created an EPUB file, 0 for audio

vars == << deepseekKey, googleKey, ffmpegEnv, ffmpegOnPath, pc, loc, resp, tasks, disk >>

config == << deepseekKey, googleKey, ffmpegEnv, ffmpegOnPath >>

\* The locals of a handler that is not running.
NoLocals ==
  [ hpc             |-> "none",     \* position in create_book
    url             |-> << >>,      \* request.url
    clean_url       |-> << >>,
    video_id        |-> NoneSeq,
    video_title     |-> None,
    titleResult     |-> "none",     \* how the title lookup ended
    transcript_text |-> None,
    book_content    |-> "",
    audio_path      |-> NoneSeq,
    epub_path       |-> NoneSeq,
    captions        |-> "none",     \* how the caption fetch ended: "raised", "returned"
    branch          |-> "none",     \* which side of `if transcript_text:` was taken
    generated       |-> None,       \* the text a backend call returned
    uploaded        |-> FALSE,      \* a remote copy of the audio file exists
    uploadOk        |-> FALSE,      \* genai.upload_file returned
    deleteRaised    |-> FALSE,      \* genai.delete_file raised
    raisedIn        |-> "none",     \* where an exception left create_book
    wrote           |-> {},         \* audio paths download_audio wrote
    nTitle          |-> 0,          \* calls of each collaborator
    nCaptions       |-> 0,
    nDeepSeek       |-> 0,
    nDownload       |-> 0,
    nUpload         |-> 0,
    nGenerate       |-> 0,
    nDelete         |-> 0 ]

NoResponse == [ status |-> "none", path |-> NoneSeq, sent |-> "no" ]

Init ==
  /\ deepseekKey \in BOOLEAN
  /\ googleKey \in BOOLEAN
  /\ ffmpegEnv \in { "unset", "valid", "invalid" }
  /\ ffmpegOnPath \in BOOLEAN
  /\ pc = [ r \in Requests |-> "idle" ]
  /\ loc = [ r \in Requests |-> NoLocals ]
  /\ resp = [ r \in Requests |-> NoResponse ]
  /\ tasks = [ r \in Requests |-> {} ]
  /\ disk = {}

(***************************************************************************)
(* The file system                                                         *)
(***************************************************************************)

Exists(path) == \E f \in disk : f[1] = path

\* Writing a file creates it or replaces the one at that path.
Written(d, path, r) == { f \in d : f[1] # path } \cup { << path, r >> }

Removed(d, path) == { f \in d : f[1] # path }

\* '/tmp/%(id)s.%(ext)s': the downloaded stream, before it is transcoded.
RawPath(id) == << "/tmp", id, "webm" >>

\* f"/tmp/{info['id']}.mp3"
Mp3Path(id) == << "/tmp", id, "mp3" >>

\* The names tempfile.NamedTemporaryFile(suffix=".epub") can pick.  A request
\* creates at most one file, so a free name always exists.
TmpSuffixes == << "a", "b", "c", "d", "e", "f" >>

EpubPath(n) == << "/tmp", << "t", "m", "p", TmpSuffixes[n] >>, "epub" >>

\* NamedTemporaryFile picks a name no existing file has.  The names are
\* interchangeable: the model takes the first free one.
FreshEpubPath(d) ==
  LET free == { n \in 1 .. NumRequests : \A f \in d : f[1] # EpubPath(n) }
  IN  EpubPath(CHOOSE n \in free : \A m \in free : n <= m)

(***************************************************************************)
(* create_book, step by step                                               *)
(***************************************************************************)

\* create_book is `async def` and never awaits: the event loop runs one
\* handler body at a time.
LoopFree == \A q \in Requests : pc[q] # "handler"

\* A request arrives and its handler starts.  Requests are numbered in the
\* order of their arrival.
Receive(r) ==
  /\ pc[r] = "idle"
  /\ \A q \in Requests : q < r => pc[q] # "idle"
  /\ LoopFree
  /\ \E u \in Urls :
       loc' = [ loc EXCEPT ![r] = [ NoLocals EXCEPT !.hpc = "validate", !.url = u ] ]
  /\ pc' = [ pc EXCEPT ![r] = "handler" ]
  /\ UNCHANGED << config, resp, tasks, disk >>

\* The handler of r is at position p.
At(r, p) == pc[r] = "handler" /\ loc[r].hpc = p

\* An exception leaves create_book: the framework answers with `status`.
Raised(l, where) == [ l EXCEPT !.hpc = "returned", !.raisedIn = where ]

\* Mutation of CheckVideoId: the check of the identifier is missing.
CheckVideoId_Missing(l) == [ l EXCEPT !.hpc = "title" ]

\* if not video_id: raise HTTPException(status_code=400, ...)
CheckVideoId(l) ==
  IF l.video_id = NoneSeq THEN Raised(l, "validate") ELSE [ l EXCEPT !.hpc = "title" ]

\* URL cleanup, identifier extraction and the check of the identifier.
ValidateUrl(r) ==
  /\ At(r, "validate")
  /\ LET clean == CleanUrl(loc[r].url)
         l     == CheckVideoId([ loc[r] EXCEPT !.clean_url = clean,
                                               !.video_id  = extract_video_id(clean) ])
     IN  /\ loc' = [ loc EXCEPT ![r] = l ]
         /\ resp' = IF l.hpc = "returned"
                    THEN [ resp EXCEPT ![r] = [ NoResponse EXCEPT !.status = "http400" ] ]
                    ELSE resp
  /\ UNCHANGED << config, pc, tasks, disk >>

\* get_video_title: the lookup raises, yields metadata without a title, or
\* yields a title (here an ASCII one, which NFC leaves as it is).  An
\* exception is absorbed by the bare except; metadata without a title takes
\* the default of info.get.
TitleResults == { "raise", "no_title", "Title" }

TitleOf(result) ==
  IF result = "raise" THEN TitleOnFailure
  ELSE IF result = "no_title" THEN TitleDefault
  ELSE result

GetTitle(r) ==
  /\ At(r, "title")
  /\ \E result \in TitleResults :
       loc' = [ loc EXCEPT ![r] = [ @ EXCEPT !.video_title = TitleOf(result),
                                             !.titleResult = result,
                                             !.nTitle = @ + 1,
                                             !.hpc = "captions" ] ]
  /\ UNCHANGED << config, pc, resp, tasks, disk >>

\* The caption fetch: transcript_text stays None when it raises.
FetchCaptions(r) ==
  /\ At(r, "captions")
  /\ \/ loc' = [ loc EXCEPT ![r] = [ @ EXCEPT !.captions = "raised",
                                              !.nCaptions = @ + 1,
                                              !.hpc = "branch" ] ]
     \/ \E texts \in CaptionLists :
          loc' = [ loc EXCEPT ![r] = [ @ EXCEPT !.transcript_text = JoinSpace(texts),
                                                !.captions = "returned",
                                                !.nCaptions = @ + 1,
                                                !.hpc = "branch" ] ]
  /\ UNCHANGED << config, pc, resp, tasks, disk >>

\* if transcript_text: ... else: ...  with the credential check of each side.
Branch(l, dsKey, gKey) ==
  IF Truthy(l.transcript_text)
  THEN IF ~ dsKey
       THEN [ l EXCEPT !.branch = "text", !.book_content = MsgNoDeepSeekKey,
                       !.hpc = "assemble" ]
       ELSE [ l EXCEPT !.branch = "text", !.hpc = "deepseek" ]
  ELSE IF ~ gKey
       THEN [ l EXCEPT !.branch = "audio", !.book_content = MsgNoGoogleKey,
                       !.hpc = "assemble" ]
       ELSE [ l EXCEPT !.branch = "audio", !.audio_path = NoneSeq, !.hpc = "download" ]

SelectBranch(r) ==
  /\ At(r, "branch")
  /\ loc' = [ loc EXCEPT ![r] = Branch(@, deepseekKey, googleKey) ]
  /\ UNCHANGED << config, pc, resp, tasks, disk >>

\* Mutation of DeepSeekFailed: the exception is not caught.
DeepSeekFailed_Propagates(l, e) == Raised(l, "deepseek")

\* Mutation of DeepSeekFailed: a failed text backend falls back to the audio path.
DeepSeekFailed_FallsThrough(l, e) ==
  [ l EXCEPT !.book_content = MsgDeepSeekError(e), !.hpc = "download" ]

\* except Exception as e: book_content = f"## AI 오류 ... {e}"
DeepSeekFailed(l, e) ==
  [ l EXCEPT !.book_content = MsgDeepSeekError(e), !.hpc = "assemble" ]

\* book_content = response.choices[0].message.content, which may be None.
DeepSeekReturned(l, content) ==
  [ l EXCEPT !.book_content = content, !.generated = content, !.hpc = "assemble" ]

\* The single call of the text backend.
CallDeepSeek(r) ==
  /\ At(r, "deepseek")
  /\ \/ loc' = [ loc EXCEPT ![r] =
                   DeepSeekFailed([ @ EXCEPT !.nDeepSeek = @ + 1 ], ErrorText) ]
     \/ \E content \in GeneratedTexts \cup { None } :
          loc' = [ loc EXCEPT ![r] =
                   DeepSeekReturned([ @ EXCEPT !.nDeepSeek = @ + 1 ], content) ]
  /\ UNCHANGED << config, pc, resp, tasks, disk >>

(***************************************************************************)
(* The audio branch: the try / except / finally of create_book             *)
(***************************************************************************)

\* except Exception as e: book_content = f"## 처리 실패 ... {e}", then finally.
AudioFailed(l, e) ==
  [ l EXCEPT !.book_content = MsgAudioError(e), !.hpc = "finally" ]

\* ffmpeg_path = os.environ.get("FFMPEG_PATH") or shutil.which("ffmpeg")
FfmpegPath(env, onPath) ==
  IF env # "unset" THEN env ELSE IF onPath THEN "valid" ELSE None

\* The id yt-dlp reports for the URL (info['id']): yt-dlp parses the URL
\* itself and takes the v parameter of the query string when there is one.
InfoId(url) ==
  LET hits == { i \in 1 .. Len(url) :
                  /\ url[i] \in { "?", "&" }
                  /\ StartsWithAt(url, <<"v","=">>, i + 1)
                  /\ IdAt(url, i + 3) }
  IN  IF hits = {} THEN extract_video_id(url)
      ELSE LET first == CHOOSE i \in hits : \A j \in hits : i <= j
           IN  SubSeq(url, first + 3, first + 2 + IdLen)

\* download_audio: without an ffmpeg path it raises before the download; with
\* one, yt-dlp downloads the stream and transcodes it, and may raise before
\* writing anything, or after it wrote the downloaded stream.
DownloadAudio(r) ==
  /\ At(r, "download")
  /\ LET l  == loc[r]
         id == InfoId(l.clean_url)
     IN  IF FfmpegPath(ffmpegEnv, ffmpegOnPath) = None
         THEN /\ loc' = [ loc EXCEPT ![r] = AudioFailed(l, ErrorText) ]
              /\ disk' = disk
         ELSE LET called == [ l EXCEPT !.nDownload = @ + 1 ]
              IN  \/ /\ loc' = [ loc EXCEPT ![r] = AudioFailed(called, ErrorText) ]
                     /\ disk' = disk
                  \/ /\ loc' = [ loc EXCEPT ![r] =
                                   AudioFailed([ called EXCEPT !.wrote = @ \cup { RawPath(id) } ],
                                               ErrorText) ]
                     /\ disk' = Written(disk, RawPath(id), 0)
                  \/ /\ FfmpegPath(ffmpegEnv, ffmpegOnPath) = "valid"
                     /\ loc' = [ loc EXCEPT ![r] =
                                   [ called EXCEPT !.wrote = @ \cup { Mp3Path(id) },
                                                   !.audio_path = Mp3Path(id),
                                                   !.hpc = "upload" ] ]
                     /\ disk' = Written(Removed(disk, RawPath(id)), Mp3Path(id), 0)
  /\ UNCHANGED << config, pc, resp, tasks >>

\* audio_file = genai.upload_file(audio_path)
Upload(r) ==
  /\ At(r, "upload")
  /\ \/ loc' = [ loc EXCEPT ![r] = AudioFailed([ @ EXCEPT !.nUpload = @ + 1 ], ErrorText) ]
     \/ loc' = [ loc EXCEPT ![r] = [ @ EXCEPT !.nUpload = @ + 1, !.uploaded = TRUE,
                                              !.uploadOk = TRUE,
                                              !.hpc = "generate" ] ]
  /\ UNCHANGED << config, pc, resp, tasks, disk >>

\* response = model.generate_content(...); book_content = response.text
\* (reading .text raises when the response holds no text).
Generate(r) ==
  /\ At(r, "generate")
  /\ \/ loc' = [ loc EXCEPT ![r] = AudioFailed([ @ EXCEPT !.nGenerate = @ + 1 ], ErrorText) ]
     \/ \E text \in GeneratedTexts :
          loc' = [ loc EXCEPT ![r] = [ @ EXCEPT !.nGenerate = @ + 1,
                                                !.book_content = text,
                                                !.generated = text,
                                                !.hpc = "delete_remote" ] ]
  /\ UNCHANGED << config, pc, resp, tasks, disk >>

\* genai.delete_file raised: the statement stands inside the try block, so
\* the except clause of the audio branch handles it.
DeleteFailed(l, e) == AudioFailed([ l EXCEPT !.deleteRaised = TRUE ], e)

\* genai.delete_file(audio_file.name)
DeleteRemote(r) ==
  /\ At(r, "delete_remote")
  /\ \/ loc' = [ loc EXCEPT ![r] = DeleteFailed([ @ EXCEPT !.nDelete = @ + 1 ], ErrorText) ]
     \/ loc' = [ loc EXCEPT ![r] = [ @ EXCEPT !.nDelete = @ + 1, !.uploaded = FALSE,
                                              !.hpc = "finally" ] ]
  /\ UNCHANGED << config, pc, resp, tasks, disk >>

\* finally: if audio_path and os.path.exists(audio_path): os.remove(audio_path)
AfterFinally(d, l) ==
  IF l.audio_path # NoneSeq /\ (\E f \in d : f[1] = l.audio_path)
  THEN Removed(d, l.audio_path)
  ELSE d

Finally(r) ==
  /\ At(r, "finally")
  /\ disk' = AfterFinally(disk, loc[r])
  /\ loc' = [ loc EXCEPT ![r] = [ @ EXCEPT !.hpc = "assemble" ] ]
  /\ UNCHANGED << config, pc, resp, tasks >>

(***************************************************************************)
(* EPUB assembly, response and deferred cleanup                            *)
(***************************************************************************)

\* create_epub_file: unicodedata.normalize raises TypeError on None; the
\* temporary file is created (delete=False) before write_epub runs, and
\* write_epub may raise.
Assemble(r) ==
  /\ At(r, "assemble")
  /\ IF loc[r].book_content = None
     THEN /\ loc' = [ loc EXCEPT ![r] = Raised(@, "create_epub_file") ]
          /\ resp' = [ resp EXCEPT ![r] = [ NoResponse EXCEPT !.status = "http500" ] ]
          /\ disk' = disk
     ELSE LET p == FreshEpubPath(disk)
          IN  /\ disk' = Written(disk, p, r)
              /\ \/ /\ loc' = [ loc EXCEPT ![r] = [ @ EXCEPT !.epub_path = p,
                                                             !.hpc = "schedule" ] ]
                    /\ resp' = resp
                 \/ /\ loc' = [ loc EXCEPT ![r] = Raised(@, "create_epub_file") ]
                    /\ resp' = [ resp EXCEPT ![r] =
                                   [ NoResponse EXCEPT !.status = "http500" ] ]
  /\ UNCHANGED << config, pc, tasks >>

\* remove_file: if os.path.exists(path): os.remove(path)
remove_file(d, path) ==
  IF \E f \in d : f[1] = path THEN Removed(d, path) ELSE d

\* Mutation of ScheduleAndReturn: remove_file is called at once instead of
\* being handed to the background tasks.
ScheduleAndReturn_RemovesNow(r) ==
  /\ At(r, "schedule")
  /\ disk' = remove_file(disk, loc[r].epub_path)
  /\ resp' = [ resp EXCEPT ![r] = [ NoResponse EXCEPT !.status = "document",
                                                      !.path = loc[r].epub_path ] ]
  /\ loc' = [ loc EXCEPT ![r] = [ @ EXCEPT !.hpc = "returned" ] ]
  /\ UNCHANGED << config, pc, tasks >>

\* background_tasks.add_task(remove_file, epub_path); return FileResponse(...)
ScheduleAndReturn(r) ==
  /\ At(r, "schedule")
  /\ tasks' = [ tasks EXCEPT ![r] = @ \cup { loc[r].epub_path } ]
  /\ resp' = [ resp EXCEPT ![r] = [ NoResponse EXCEPT !.status = "document",
                                                      !.path = loc[r].epub_path ] ]
  /\ loc' = [ loc EXCEPT ![r] = [ @ EXCEPT !.hpc = "returned" ] ]
  /\ UNCHANGED << config, pc, disk >>

\* The handler has returned or raised: its locals are gone.  A file response
\* is transmitted next; an error response ends the request.
Respond(r) ==
  /\ At(r, "returned")
  /\ loc' = [ loc EXCEPT ![r] = NoLocals ]
  /\ pc' = [ pc EXCEPT ![r] = IF resp[r].status = "document" THEN "sending" ELSE "done" ]
  /\ UNCHANGED << config, resp, tasks, disk >>

\* The framework transmits the file of the FileResponse.
Transmit(r) ==
  /\ pc[r] = "sending"
  /\ resp' = [ resp EXCEPT ![r].sent = IF Exists(resp[r].path) THEN "ok" ELSE "missing" ]
  /\ pc' = [ pc EXCEPT ![r] = "background" ]
  /\ UNCHANGED << config, loc, tasks, disk >>

\* After the response the framework runs the background task of the request;
\* the response object is gone then, the status the client got is kept.
RunBackground(r) ==
  /\ pc[r] = "background"
  /\ \E path \in tasks[r] :
       /\ disk' = remove_file(disk, path)
       /\ tasks' = [ tasks EXCEPT ![r] = @ \ { path } ]
  /\ resp' = [ resp EXCEPT ![r] = [ NoResponse EXCEPT !.status = resp[r].status ] ]
  /\ pc' = [ pc EXCEPT ![r] = "done" ]
  /\ UNCHANGED << config, loc >>

Next ==
  \E r \in Requests :
    \/ Receive(r)
    \/ ValidateUrl(r)
    \/ GetTitle(r)
    \/ FetchCaptions(r)
    \/ SelectBranch(r)
    \/ CallDeepSeek(r)
    \/ DownloadAudio(r)
    \/ Upload(r)
    \/ Generate(r)
    \/ DeleteRemote(r)
    \/ Finally(r)
    \/ Assemble(r)
    \/ ScheduleAndReturn(r)
    \/ Respond(r)
    \/ Transmit(r)
    \/ RunBackground(r)

Spec == Init /\ [][Next]_vars

(***************************************************************************)
(* Properties                                                              *)
(***************************************************************************)

\* The handler of r runs and has taken one side of `if transcript_text:`.
Branched(r) == pc[r] = "handler" /\ loc[r].branch # "none"

\* The handler of r runs and is past the generation step.
PastGeneration(r) ==
  pc[r] = "handler" /\ loc[r].hpc \in { "assemble", "schedule", "returned" }

NoBackendCall(l) == l.nDeepSeek = 0 /\ l.nGenerate = 0

NoAudioStep(l) == l.nDownload = 0 /\ l.nUpload = 0 /\ l.nGenerate = 0 /\ l.nDelete = 0

\* C1: a request whose URL yields a video id is answered with the EPUB
\* document whenever create_epub_file does not raise: no exception leaves
\* create_book anywhere else, whatever the title lookup, the caption fetch,
\* the credentials, ffmpeg, the download, the upload and the backends do.
C1_DocumentUnlessPackagingFails ==
  \A r \in Requests :
    (pc[r] = "handler" /\ loc[r].video_id # NoneSeq) =>
      /\ loc[r].raisedIn \in { "none", "create_epub_file" }
      /\ resp[r].status \in { "none", "document", "http500" }
      /\ (resp[r].status = "http500") = (loc[r].raisedIn = "create_epub_file")
      /\ (loc[r].hpc = "returned" /\ loc[r].raisedIn = "none") =>
           resp[r].status = "document"

\* C1 witness: a document is returned although the title lookup failed and
\* the audio branch failed.
C1_Witness ==
  \E r \in Requests :
    /\ At(r, "returned")
    /\ resp[r].status = "document"
    /\ loc[r].video_title = TitleOnFailure
    /\ loc[r].captions = "raised"
    /\ loc[r].book_content = MsgAudioError(ErrorText)

\* C2 (as claimed): the audio side of the branch is taken exactly when the
\* caption fetch failed, and after a fetch that returned, even with an empty
\* transcript, no step of the audio path runs.
C2_AudioOnlyWhenFetchFailed ==
  \A r \in Requests :
    Branched(r) =>
      /\ (loc[r].branch = "audio") = (loc[r].captions = "raised")
      /\ loc[r].captions = "returned" => NoAudioStep(loc[r])

\* C3 (as claimed): when an audio-branch attempt proceeds to document
\* assembly, none of the audio files it wrote exists any more.
C3_NoAudioFileAfterAttempt ==
  \A r \in Requests :
    (PastGeneration(r) /\ loc[r].branch = "audio" /\ googleKey) =>
      \A path \in loc[r].wrote : ~ Exists(path)

\* C4: each backend is called at most once per request and never both; a
\* request on the text side never enters the audio path, a request on the
\* audio side never calls the text backend.
C4_NoRetryAcrossBackends ==
  \A r \in Requests :
    pc[r] = "handler" =>
      /\ loc[r].nDeepSeek <= 1
      /\ loc[r].nGenerate <= 1
      /\ ~ (loc[r].nDeepSeek > 0 /\ ~ NoAudioStep(loc[r]))
      /\ loc[r].branch = "text" =>
           /\ NoAudioStep(loc[r])
           /\ loc[r].hpc \notin { "download", "upload", "generate", "delete_remote", "finally" }
      /\ loc[r].branch = "audio" =>
           /\ loc[r].nDeepSeek = 0
           /\ loc[r].hpc # "deepseek"

\* C4 witness: the text backend raised while GOOGLE_API_KEY is set, and the
\* request went on to assembly without an audio step.
C4_Witness ==
  \E r \in Requests :
    /\ At(r, "assemble")
    /\ googleKey
    /\ loc[r].branch = "text"
    /\ loc[r].nDeepSeek = 1
    /\ loc[r].book_content = MsgDeepSeekError(ErrorText)

\* C5 (as claimed): with DEEPSEEK_API_KEY absent when a transcript was
\* obtained, or GOOGLE_API_KEY absent when none was, the manuscript is a
\* missing-configuration placeholder, no backend is called, nothing is
\* downloaded or uploaded, no audio file is written, and the request goes on
\* to document assembly.
C5_MissingCredentialShortCircuits ==
  \A r \in Requests :
    ( /\ Branched(r)
      /\ \/ loc[r].captions = "returned" /\ ~ deepseekKey
         \/ loc[r].captions = "raised" /\ ~ googleKey ) =>
      /\ NoBackendCall(loc[r])
      /\ NoAudioStep(loc[r])
      /\ loc[r].wrote = {}
      /\ loc[r].book_content \in { MsgNoDeepSeekKey, MsgNoGoogleKey }
      /\ PastGeneration(r)
      /\ loc[r].raisedIn \in { "none", "create_epub_file" }

\* C6 (as claimed): when FFMPEG_PATH does not name an existing tool and no
\* ffmpeg is on the search path, no download is attempted and no audio file
\* is written.
C6_NoDownloadWithoutFfmpeg ==
  \A r \in Requests :
    (pc[r] = "handler" /\ ffmpegEnv # "valid" /\ ~ ffmpegOnPath) =>
      /\ loc[r].nDownload = 0
      /\ loc[r].wrote = {}

\* C7: a URL without a video id ends the request with status 400 before any
\* collaborator is called, with no file created and no cleanup task scheduled.
C7_InvalidUrlFailsFirst ==
  \A r \in Requests :
    /\ (pc[r] = "handler" /\ loc[r].hpc # "validate" /\ loc[r].video_id = NoneSeq) =>
         /\ loc[r].hpc = "returned"
         /\ resp[r].status = "http400"
         /\ loc[r].nTitle = 0
         /\ loc[r].nCaptions = 0
         /\ NoBackendCall(loc[r])
         /\ NoAudioStep(loc[r])
         /\ loc[r].wrote = {}
         /\ loc[r].epub_path = NoneSeq
    /\ resp[r].status = "http400" =>
         /\ tasks[r] = {}
         /\ \A f \in disk : f[2] # r
         /\ pc[r] \in { "handler", "done" }

\* C7 witness: the request for "not a url" has been refused.
C7_Witness ==
  \E r \in Requests :
    /\ At(r, "returned")
    /\ loc[r].url = UrlBad
    /\ resp[r].status = "http400"

\* C8 (as claimed): when a request has ended, on any exit path, no EPUB file
\* it created is left on disk.
C8_NoEpubOutlivesRequest ==
  \A r \in Requests :
    pc[r] = "done" => \A f \in disk : f[2] # r

\* C9 (as claimed): when genai.delete_file raises after generation returned
\* text, the manuscript is still the generated text.
C9_DeleteFailureNotSurfaced ==
  \A r \in Requests :
    (pc[r] = "handler" /\ loc[r].deleteRaised) =>
      loc[r].book_content = loc[r].generated

\* C10 (as claimed): the manuscript handed to create_epub_file is a
\* non-empty string.
C10_ManuscriptNonEmpty ==
  \A r \in Requests :
    At(r, "assemble") => Truthy(loc[r].book_content)

\* C11 (as claimed): get_video_title returns one and the same placeholder on
\* every failure of the lookup: an exception, or metadata without a title.
C11_OnePlaceholderOnFailure ==
  \A r \in Requests :
    (pc[r] = "handler" /\ loc[r].titleResult \in { "raise", "no_title" }) =>
      loc[r].video_title = TitleOnFailure

\* C17 (as claimed): when the request goes on to document assembly after an
\* upload that succeeded, the deletion of the remote copy has been attempted.
C17_UploadFollowedByDeleteAttempt ==
  \A r \in Requests :
    (PastGeneration(r) /\ loc[r].uploadOk) => loc[r].nDelete > 0

\* The cleanup the comment of create_book describes: "https;//" becomes
\* "https://", surrounding whitespace is trimmed.
IntendedCleanUrl(url) ==
  Strip(Replace(url, <<"h","t","t","p","s",";","/","/">>,
                     <<"h","t","t","p","s",":","/","/">>))

\* C18 (as claimed): the cleaned URL has the mistyped scheme "https;//"
\* replaced by "https://" and is trimmed, a well-formed URL is unchanged,
\* and identifier extraction uses the cleaned URL.
C18_SchemeRepaired ==
  \A r \in Requests :
    (pc[r] = "handler" /\ loc[r].hpc # "validate") =>
      /\ loc[r].clean_url = IntendedCleanUrl(loc[r].url)
      /\ loc[r].video_id = extract_video_id(loc[r].clean_url)

(***************************************************************************)
(* extract_video_id applied to URLs of the supported shapes                *)
(***************************************************************************)

SchemeHttps == <<"h","t","t","p","s",":","/","/">>

\* www.youtube.com, youtu.be, m.youtube.com, music.youtube.com, youtube-nocookie.com
Hosts ==
  { <<"w","w","w",".","y","o","u","t","u","b","e",".","c","o","m">>,
    <<"y","o","u","t","u",".","b","e">>,
    <<"m",".","y","o","u","t","u","b","e",".","c","o","m">>,
    <<"m","u","s","i","c",".","y","o","u","t","u","b","e",".","c","o","m">>,
    <<"y","o","u","t","u","b","e","-","n","o","c","o","o","k","i","e",".","c","o","m">> }

\* dQw4w9WgXcQ and a_c-EFGH1jk
SampleIds ==
  { <<"d","Q","w","4","w","9","W","g","X","c","Q">>,
    <<"a","_","c","-","E","F","G","H","1","j","k">> }

\* Query parameters in front of v=: none, feature=share&, rev=12345678901&
ParamsBefore ==
  { << >>,
    <<"f","e","a","t","u","r","e","=","s","h","a","r","e","&">>,
    <<"r","e","v","=","1","2","3","4","5","6","7","8","9","0","1","&">> }

\* What follows the identifier: nothing, or one more parameter (t=1).
ParamAfter == <<"t","=","1">>

\* <host>/watch?<params>v=<id><more>
WatchUrl(host, before, id, more) ==
  SchemeHttps \o host \o <<"/","w","a","t","c","h","?">> \o before \o <<"v","=">> \o id \o more

\* <host>/<id><more>
ShortUrl(host, id, more) == SchemeHttps \o host \o <<"/">> \o id \o more

\* <host>/embed/<id><more>
EmbedUrl(host, id, more) == SchemeHttps \o host \o <<"/","e","m","b","e","d","/">> \o id \o more

\* URLs of the supported shapes, each with the identifier it embeds.
ShapedCases ==
  UNION { { [ url |-> WatchUrl(h, b, i, m), id |-> i ] :
              b \in ParamsBefore, m \in { << >>, <<"&">> \o ParamAfter } }
          \cup
          { [ url |-> ShortUrl(h, i, m), id |-> i ] : m \in { << >>, <<"?">> \o ParamAfter } }
          \cup
          { [ url |-> EmbedUrl(h, i, m), id |-> i ] : m \in { << >>, <<"?">> \o ParamAfter } }
        : h \in Hosts, i \in SampleIds }

\* Strings without an 11-character token after "v=" or "/".
TokenlessCases ==
  { [ url |-> u, id |-> NoneSeq ] :
      u \in { UrlBad, << >>, SchemeHttps,
              <<"h","t","t","p","s",":","/","/","w","w","w",".","y","o","u","t","u","b","e",".","c","o","m","/">>,
              <<"h","t","t","p","s",":","/","/","y","o","u","t","u",".","b","e","/","s","h","o","r","t">>,
              <<"w","a","t","c","h","?","v","=","t","o","o","s","h","o","r","t">> } }

ExtractCases == ShapedCases \cup TokenlessCases

\* extract_video_id is called on the URL of request 1.
InitExtract ==
  /\ deepseekKey = TRUE
  /\ googleKey = TRUE
  /\ ffmpegEnv = "unset"
  /\ ffmpegOnPath = TRUE
  /\ pc = [ r \in Requests |-> IF r = 1 THEN "handler" ELSE "idle" ]
  /\ \E c \in ExtractCases :
       loc = [ r \in Requests |->
                 IF r = 1 THEN [ NoLocals EXCEPT !.hpc = "extract", !.url = c.url ]
                 ELSE NoLocals ]
  /\ resp = [ r \in Requests |-> NoResponse ]
  /\ tasks = [ r \in Requests |-> {} ]
  /\ disk = {}

\* video_id = extract_video_id(url)
ExtractOnly(r) ==
  /\ At(r, "extract")
  /\ loc' = [ loc EXCEPT ![r] = [ @ EXCEPT !.video_id = extract_video_id(loc[r].url),
                                           !.hpc = "extracted" ] ]
  /\ UNCHANGED << config, pc, resp, tasks, disk >>

NextExtract == ExtractOnly(1)

SpecExtract == InitExtract /\ [][NextExtract]_vars

\* C12 (as claimed): for a URL of a supported shape extract_video_id returns
\* the identifier the URL embeds, whatever the host and the other query
\* parameters; for a string without such a token it returns None.
C12_ExtractsEmbeddedId ==
  \A c \in ExtractCases :
    (At(1, "extracted") /\ loc[1].url = c.url) => loc[1].video_id = c.id

(***************************************************************************)
(* Unicode composition: get_video_title and create_epub_file on texts      *)
(*                                                                         *)
(* A text is a sequence of code points.  A code point is a leading         *)
(* consonant L, a vowel V or a trailing consonant T (the conjoining jamo), *)
(* a precomposed syllable S (c = 0: without trailing consonant), or        *)
(* another character A that takes no part in composition.                  *)
(***************************************************************************)

\* Longest text drawn as a title.
MaxTextLen == 3

JamoL(a) == [ k |-> "L", a |-> a, b |-> 0, c |-> 0 ]
JamoV(b) == [ k |-> "V", a |-> 0, b |-> b, c |-> 0 ]
JamoT(c) == [ k |-> "T", a |-> 0, b |-> 0, c |-> c ]
Syllable(a, b, c) == [ k |-> "S", a |-> a, b |-> b, c |-> c ]
Other(a) == [ k |-> "A", a |-> a, b |-> 0, c |-> 0 ]

CodePoints == { JamoL(1), JamoV(1), JamoT(1), Syllable(1, 1, 0), Syllable(1, 1, 1), Other(1) }

Texts == UNION { [ 1 .. n -> CodePoints ] : n \in 0 .. MaxTextLen }

\* Canonical decomposition of one code point.
DecomposeOne(cp) ==
  IF cp.k # "S" THEN << cp >>
  ELSE IF cp.c = 0 THEN << JamoL(cp.a), JamoV(cp.b) >>
  ELSE << JamoL(cp.a), JamoV(cp.b), JamoT(cp.c) >>

\* Canonical decomposition (NFD).
RECURSIVE NFD(_)
NFD(text) ==
  IF text = << >> THEN << >> ELSE DecomposeOne(Head(text)) \o NFD(Tail(text))

\* Canonical composition: L + V gives a syllable, a syllable without
\* trailing consonant + T gives the full syllable.
RECURSIVE ComposeOnto(_, _)
ComposeOnto(done, rest) ==
  IF rest = << >> THEN done
  ELSE LET cp   == Head(rest)
           last == IF done = << >> THEN Other(0) ELSE done[Len(done)]
           init == IF done = << >> THEN << >> ELSE SubSeq(done, 1, Len(done) - 1)
       IN  IF last.k = "L" /\ cp.k = "V"
           THEN ComposeOnto(Append(init, Syllable(last.a, cp.b, 0)), Tail(rest))
           ELSE IF last.k = "S" /\ last.c = 0 /\ cp.k = "T"
           THEN ComposeOnto(Append(init, Syllable(last.a, last.b, cp.c)), Tail(rest))
           ELSE ComposeOnto(Append(done, cp), Tail(rest))

\* unicodedata.normalize('NFC', text): decompose, then compose.
NFC(text) == ComposeOnto(<< >>, NFD(text))

\* "YouTube Video Summary" and 'YouTube Summary' as texts: characters that
\* do not compose.
TitleOnFailureText == << Other(2), Other(3), Other(4) >>

TitleDefaultText == << Other(2), Other(4) >>

\* get_video_title on the outcome of the lookup.
get_video_title(outcome) ==
  IF outcome.kind = "raise" THEN TitleOnFailureText
  ELSE IF outcome.kind = "no_title" THEN NFC(TitleDefaultText)
  ELSE NFC(outcome.title)

\* markdown.markdown on plain text: the text inside a paragraph element.
Markdown(text) == << Other(5) >> \o text \o << Other(6) >>

\* Mutation of create_epub_doc: the manuscript is not normalized.
create_epub_doc_RawContent(title, content_markdown) ==
  [ title   |-> NFC(title),
    heading |-> NFC(title),
    body    |-> Markdown(content_markdown) ]

\* create_epub_file: both texts are normalized, then embedded as the title
\* of the book, the heading of the chapter and the converted manuscript.
create_epub_doc(title, content_markdown) ==
  [ title   |-> NFC(title),
    heading |-> NFC(title),
    body    |-> Markdown(NFC(content_markdown)) ]

\* What the title lookup can yield.
TitleOutcomes ==
  { [ kind |-> "raise", title |-> << >> ], [ kind |-> "no_title", title |-> << >> ] }
  \cup { [ kind |-> "title", title |-> t ] : t \in Texts }

\* Manuscripts: decomposed, partly composed, composed, and plain.
SampleManuscripts ==
  { << JamoL(1), JamoV(1), JamoT(1), Other(1) >>,
    << Syllable(1, 1, 0), JamoT(1), Other(1) >>,
    << Syllable(1, 1, 1), Other(1) >>,
    << Other(1), JamoL(1), JamoV(1) >>,
    << Other(1), Syllable(1, 1, 0) >> }

\* The two requests whose documents are compared.
TextRequests == { 1, 2 }

TextLocals(outcome, content) ==
  [ hpc          |-> "title",
    lookup       |-> outcome,
    video_title  |-> << >>,
    book_content |-> content,
    doc          |-> [ title |-> << >>, heading |-> << >>, body |-> << >> ] ]

\* The same lookup outcome with the title as it is, decomposed, or composed.
EquivalentOutcomes(o) ==
  { [ o EXCEPT !.title = t ] : t \in { o.title, NFD(o.title), ComposeOnto(<< >>, NFD(o.title)) } }

\* Request 1 gets any title and manuscript, request 2 the same title as it
\* is, decomposed or composed, and a canonically equivalent manuscript.
InitText ==
  /\ deepseekKey = TRUE
  /\ googleKey = TRUE
  /\ ffmpegEnv = "unset"
  /\ ffmpegOnPath = TRUE
  /\ pc = [ r \in Requests |-> IF r \in TextRequests THEN "handler" ELSE "idle" ]
  /\ \E o1 \in TitleOutcomes, m1 \in SampleManuscripts :
     \E o2 \in EquivalentOutcomes(o1), m2 \in { m \in SampleManuscripts : NFD(m) = NFD(m1) } :
       loc = [ r \in Requests |->
                    IF r = 1 THEN TextLocals(o1, m1)
                    ELSE IF r = 2 THEN TextLocals(o2, m2)
                    ELSE NoLocals ]
  /\ resp = [ r \in Requests |-> NoResponse ]
  /\ tasks = [ r \in Requests |-> {} ]
  /\ disk = {}

\* video_title = get_video_title(clean_url)
TextGetTitle(r) ==
  /\ At(r, "title")
  /\ loc' = [ loc EXCEPT ![r] = [ @ EXCEPT !.video_title = get_video_title(loc[r].lookup),
                                           !.hpc = "assemble" ] ]
  /\ UNCHANGED << config, pc, resp, tasks, disk >>

\* create_epub_file(video_title, book_content, video_id)
TextAssemble(r) ==
  /\ At(r, "assemble")
  /\ loc' = [ loc EXCEPT ![r] =
                [ @ EXCEPT !.doc = create_epub_doc(loc[r].video_title, loc[r].book_content),
                           !.hpc = "assembled" ] ]
  /\ UNCHANGED << config, pc, resp, tasks, disk >>

NextText == \E r \in TextRequests : TextGetTitle(r) \/ TextAssemble(r)

SpecText == InitText /\ [][NextText]_vars

\* No pair of neighbours of the text can still be composed.
IsComposed(text) ==
  \A i \in 1 .. Len(text) - 1 :
    /\ ~ (text[i].k = "L" /\ text[i + 1].k = "V")
    /\ ~ (text[i].k = "S" /\ text[i].c = 0 /\ text[i + 1].k = "T")

\* C13: the title, the heading and the manuscript of the document are in
\* composed form and canonically equivalent to the texts that came in, and
\* two requests whose titles are canonically equivalent (one decomposed, one
\* composed) get the same title and heading.
C13_DocumentIsComposed ==
  /\ \A r \in TextRequests :
       At(r, "assembled") =>
         /\ IsComposed(loc[r].doc.title)
         /\ IsComposed(loc[r].doc.heading)
         /\ IsComposed(loc[r].doc.body)
         /\ NFD(loc[r].doc.body) = NFD(Markdown(loc[r].book_content))
         /\ loc[r].lookup.kind = "title" =>
              /\ NFD(loc[r].doc.title) = NFD(loc[r].lookup.title)
              /\ loc[r].doc.heading = loc[r].doc.title
  /\ (At(1, "assembled") /\ At(2, "assembled")) =>
       /\ loc[1].doc.title = loc[2].doc.title
       /\ loc[1].doc.heading = loc[2].doc.heading

\* C13 witness: a decomposed title and its composed form, with a decomposed
\* manuscript, have both been assembled.
C13_Witness ==
  /\ At(1, "assembled")
  /\ At(2, "assembled")
  /\ loc[1].lookup.title = << JamoL(1), JamoV(1), JamoT(1) >>
  /\ loc[2].lookup.title = << Syllable(1, 1, 1) >>
  /\ loc[1].book_content = << JamoL(1), JamoV(1), JamoT(1), Other(1) >>
  /\ loc[1].doc.title = << Syllable(1, 1, 1) >>

(***************************************************************************)
(* Several worker processes                                                *)
(*                                                                         *)
(* The server started with more than one worker process: each process runs *)
(* its own event loop, so the handler bodies of two requests interleave,   *)
(* and all processes share the temporary directory.  The existence check   *)
(* and the removal of a file are two system calls.                         *)
(***************************************************************************)

\* The two requests that run in different worker processes.
WorkerRequests == { 1, 2 }

\* https://www.youtube.com/watch?rev=12345678901&v=dQw4w9WgXcQ
UrlBehindParam ==
  <<"h","t","t","p","s",":","/","/","w","w","w",".","y","o","u","t","u","b","e",
    ".","c","o","m","/","w","a","t","c","h","?","r","e","v","=",
    "1","2","3","4","5","6","7","8","9","0","1","&","v","=",
    "d","Q","w","4","w","9","W","g","X","c","Q">>

\* https://youtu.be/a_c-EFGH1jk
UrlOther ==
  <<"h","t","t","p","s",":","/","/","y","o","u","t","u",".","b","e","/",
    "a","_","c","-","E","F","G","H","1","j","k">>

WorkerUrls == { UrlShort, UrlBehindParam, UrlOther }

\* Both credentials are set and ffmpeg is found on the search path.
InitWorkers ==
  /\ deepseekKey = TRUE
  /\ googleKey = TRUE
  /\ ffmpegEnv = "unset"
  /\ ffmpegOnPath = TRUE
  /\ pc = [ r \in Requests |-> "idle" ]
  /\ loc = [ r \in Requests |-> NoLocals ]
  /\ resp = [ r \in Requests |-> NoResponse ]
  /\ tasks = [ r \in Requests |-> {} ]
  /\ disk = {}

\* A request arrives at a worker process that is free.  The first request
\* asks for UrlShort; the second for the same URL, for another URL of the
\* same video, or for another video.
ReceiveWorker(r) ==
  /\ pc[r] = "idle"
  /\ \A q \in WorkerRequests : q < r => pc[q] # "idle"
  /\ \E u \in IF r = 1 THEN { UrlShort } ELSE WorkerUrls :
       loc' = [ loc EXCEPT ![r] = [ NoLocals EXCEPT !.hpc = "validate", !.url = u ] ]
  /\ pc' = [ pc EXCEPT ![r] = "handler" ]
  /\ UNCHANGED << config, resp, tasks, disk >>

\* finally: if audio_path and os.path.exists(audio_path): ...  the check
FinallyCheck(r) ==
  /\ At(r, "finally")
  /\ loc' = [ loc EXCEPT ![r] =
                [ @ EXCEPT !.hpc = IF loc[r].audio_path # NoneSeq /\ Exists(loc[r].audio_path)
                                   THEN "finally_remove" ELSE "assemble" ] ]
  /\ UNCHANGED << config, pc, resp, tasks, disk >>

\* ... os.remove(audio_path): FileNotFoundError when the file is gone; raised
\* inside the finally clause, it leaves create_book.
FinallyRemove(r) ==
  /\ At(r, "finally_remove")
  /\ IF Exists(loc[r].audio_path)
     THEN /\ disk' = Removed(disk, loc[r].audio_path)
          /\ loc' = [ loc EXCEPT ![r] = [ @ EXCEPT !.hpc = "assemble" ] ]
          /\ resp' = resp
     ELSE /\ disk' = disk
          /\ loc' = [ loc EXCEPT ![r] = Raised(@, "finally") ]
          /\ resp' = [ resp EXCEPT ![r] = [ NoResponse EXCEPT !.status = "http500" ] ]
  /\ UNCHANGED << config, pc, tasks >>

\* The handler has returned or raised.  The URL and the identifier of the
\* request are kept for the record of the run.
RespondWorker(r) ==
  /\ At(r, "returned")
  /\ loc' = [ loc EXCEPT ![r] = [ NoLocals EXCEPT !.url = loc[r].url,
                                                  !.video_id = loc[r].video_id ] ]
  /\ pc' = [ pc EXCEPT ![r] = IF resp[r].status = "document" THEN "sending" ELSE "done" ]
  /\ UNCHANGED << config, resp, tasks, disk >>

\* remove_file: if os.path.exists(path): ...  the check
BackgroundCheck(r) ==
  /\ pc[r] = "background"
  /\ \E path \in tasks[r] :
       IF Exists(path)
       THEN /\ pc' = [ pc EXCEPT ![r] = "removing" ]
            /\ tasks' = tasks
       ELSE /\ pc' = [ pc EXCEPT ![r] = "done" ]
            /\ tasks' = [ tasks EXCEPT ![r] = @ \ { path } ]
  /\ UNCHANGED << config, loc, resp, disk >>

\* ... os.remove(path): FileNotFoundError when the file is gone.
BackgroundRemove(r) ==
  /\ pc[r] = "removing"
  /\ \E path \in tasks[r] :
       /\ tasks' = [ tasks EXCEPT ![r] = @ \ { path } ]
       /\ IF Exists(path)
          THEN /\ disk' = Removed(disk, path)
               /\ resp' = resp
          ELSE /\ disk' = disk
               /\ resp' = [ resp EXCEPT ![r].sent = "remove_file raised" ]
  /\ pc' = [ pc EXCEPT ![r] = "done" ]
  /\ UNCHANGED << config, loc >>

NextWorkers ==
  \E r \in WorkerRequests :
    \/ ReceiveWorker(r)
    \/ ValidateUrl(r)
    \/ GetTitle(r)
    \/ FetchCaptions(r)
    \/ SelectBranch(r)
    \/ CallDeepSeek(r)
    \/ DownloadAudio(r)
    \/ Upload(r)
    \/ Generate(r)
    \/ DeleteRemote(r)
    \/ FinallyCheck(r)
    \/ FinallyRemove(r)
    \/ Assemble(r)
    \/ ScheduleAndReturn(r)
    \/ RespondWorker(r)
    \/ Transmit(r)
    \/ BackgroundCheck(r)
    \/ BackgroundRemove(r)

SpecWorkers == InitWorkers /\ [][NextWorkers]_vars

\* The handler of r holds an audio artifact: download_audio has returned its
\* path and the finally clause has not finished.
HoldsAudio(r) ==
  /\ pc[r] = "handler"
  /\ loc[r].audio_path # NoneSeq
  /\ loc[r].hpc \in { "upload", "generate", "delete_remote", "finally", "finally_remove" }

\* C14 (as claimed): two requests with different VideoIds never hold the same
\* audio artifact, the audio artifact of a request exists when the request
\* uploads it, and the EPUB file of a request is its own and exists from
\* create_epub_file until the response has been transmitted.
C14_DifferentVideosDoNotCollide ==
  \A r, q \in WorkerRequests :
    (/\ r # q
     /\ loc[r].video_id # NoneSeq
     /\ loc[q].video_id # NoneSeq
     /\ loc[r].video_id # loc[q].video_id) =>
      /\ (HoldsAudio(r) /\ HoldsAudio(q)) => loc[r].audio_path # loc[q].audio_path
      /\ At(r, "upload") => Exists(loc[r].audio_path)
      /\ At(r, "schedule") => << loc[r].epub_path, r >> \in disk
      /\ pc[r] = "sending" => << resp[r].path, r >> \in disk
      /\ pc[r] \in { "background", "removing" } => resp[r].sent = "ok"

\* C15 (as claimed): no cleanup of a local file raises, and no request
\* becomes a failure, because the file was removed between the existence
\* check and the removal.
C15_CleanupSilentWhenGone ==
  \A r \in WorkerRequests :
    /\ loc[r].raisedIn # "finally"
    /\ resp[r].sent # "remove_file raised"

\* C16: the EPUB file of a request exists, and its removal is still only
\* scheduled, from the return of create_epub_file until the file response has
\* been transmitted; the transmission finds the file, and remove_file runs
\* after it.
C16_EpubKeptUntilTransmitted ==
  \A r \in Requests :
    /\ At(r, "schedule") => << loc[r].epub_path, r >> \in disk
    /\ (At(r, "returned") /\ resp[r].status = "document") =>
         /\ << resp[r].path, r >> \in disk
         /\ resp[r].path \in tasks[r]
    /\ pc[r] = "sending" =>
         /\ << resp[r].path, r >> \in disk
         /\ resp[r].path \in tasks[r]
    /\ pc[r] = "background" =>
         /\ resp[r].sent = "ok"
         /\ resp[r].path \in tasks[r]

\* C16 witness: a file response has been transmitted from the file on disk
\* and remove_file has not run yet.
C16_Witness ==
  \E r \in Requests :
    /\ pc[r] = "background"
    /\ resp[r].sent = "ok"
    /\ resp[r].path \in tasks[r]
    /\ << resp[r].path, r >> \in disk
====
